---- MODULE Spec2Model ----
(***************************************************************************)
(* track-skills: the execution wrapper (client/tracking.js), the ingestion *)
(* endpoint POST /api/track (examples/worker-integration.js), the event    *)
(* store (migration 001, table skill_usage_events), the identity helpers   *)
(* (server/tracking-utils.js) and the aggregation queries                  *)
(* (analytics/analytics.js), as one state machine.                         *)
(*                                                                         *)
(* JavaScript values are tagged records: the tag t names the type and the  *)
(* payload sits in a field of its own per type, so that values of          *)
(* different types can be compared.                                        *)
(***************************************************************************)
EXTENDS Integers, Sequences, FiniteSets, TLC

VARIABLES
  now,      \* the wall clock, in ticks (Date.now() and CURRENT_TIMESTAMP)
  store,    \* table skill_usage_events: the sequence of rows, in insert order
  inv,      \* one trackSkillExecution call per process: its position and data
  served,   \* the POST /api/track exchange of the step just taken, if any
  view,     \* what the server-side call of the step just taken returned, if any
  dash      \* the dashboard page: the range selected, its loads, its display

vars == <<now, store, inv, served, view, dash>>

---------------------------------------------------------------------------
(* Bounds of the model *)

\* number of concurrent trackSkillExecution calls
NumInv == 2
\* rows the store may hold
MaxStore == 2
\* last tick of the clock
MaxTime == 3
\* ticks of the clock per calendar day
TicksPerDay == 2
\* largest look-back window (in days) asked of an aggregation
MaxDays == 2
\* largest limit asked of getRecentErrors
MaxLimit == 2
\* loadData calls of the dashboard in flight at a time
MaxLoads == 2
\* error lines the dashboard's console keeps
MaxConsole == 1
\* rows the store may hold where the aggregations are studied over time
MaxRows == 3

Procs == 1..NumInv

---------------------------------------------------------------------------
(* JavaScript values *)

JSUndef == [t |-> "undefined"]
JSNull == [t |-> "null"]
JSNum(n) == [t |-> "number", n |-> n]
JSBig(n) == [t |-> "bigint", b |-> n]
JSStr(s) == [t |-> "string", s |-> s]
JSNaN == [t |-> "nan"]
\* an Error object: only its name and message are read by the code
JSError(name, message) == [t |-> "error", name |-> name, message |-> message]
\* the TypeError raised by the runtime when a property of undefined/null is read
TypeErr(what) == JSError("TypeError", what)

IsNullish(v) == v.t \in {"undefined", "null"}

\* ToBoolean
Truthy(v) ==
  CASE v.t \in {"undefined", "null", "nan"} -> FALSE
    [] v.t = "number" -> v.n # 0
    [] v.t = "bigint" -> v.b # 0
    [] v.t = "string" -> v.s # ""
    [] OTHER -> TRUE

\* a || b
Or(a, b) == IF Truthy(a) THEN a ELSE b

\* `${v}` for the values headers can hold
TemplateString(v) ==
  CASE v.t = "null" -> "null"
    [] v.t = "undefined" -> "undefined"
    [] v.t = "string" -> v.s
    [] OTHER -> "[object]"

\* e.name / e.message of a non-nullish thrown value (undefined unless an Error)
ErrProp(e, prop) == IF e.t = "error" THEN JSStr(e[prop]) ELSE JSUndef

---------------------------------------------------------------------------
(* Time: Date, toISOString and SQLite's CURRENT_TIMESTAMP, as character    *)
(* codes so that SQLite's text comparison is the comparison the code runs. *)

TwoDigits(n) == <<48 + (n \div 10), 48 + (n % 10)>>

\* "2026-11-DD", or "2026-10-DD" before the 1st of November: tick 0 is
\* 2026-11-15T00:00:00Z
DateChars(tick) ==
  LET d == 15 + (tick \div TicksPerDay)
  IN  IF d >= 1
      THEN <<50, 48, 50, 54, 45, 49, 49, 45>> \o TwoDigits(d)
      ELSE <<50, 48, 50, 54, 45, 49, 48, 45>> \o TwoDigits(31 + d)

\* "HH:00:00"
TimeChars(tick) ==
  TwoDigits(((tick % TicksPerDay) * 24) \div TicksPerDay)
    \o <<58, 48, 48, 58, 48, 48>>

\* CURRENT_TIMESTAMP: 'YYYY-MM-DD HH:MM:SS'
CurrentTimestamp(tick) == DateChars(tick) \o <<32>> \o TimeChars(tick)

\* Date.prototype.toISOString: 'YYYY-MM-DDTHH:MM:SS.sssZ'
ToISOString(tick) ==
  DateChars(tick) \o <<84>> \o TimeChars(tick) \o <<46, 48, 48, 48, 90>>

\* since = new Date(); since.setDate(since.getDate() - days)
SinceDate(tick, days) == tick - days * TicksPerDay

RECURSIVE TextLess(_, _)
\* SQLite's BINARY collation: a < b
TextLess(a, b) ==
  IF b = <<>> THEN FALSE
  ELSE IF a = <<>> THEN TRUE
  ELSE IF Head(a) # Head(b) THEN Head(a) < Head(b)
  ELSE TextLess(Tail(a), Tail(b))

\* timestamp >= ?
TextGE(a, b) == ~TextLess(a, b)

---------------------------------------------------------------------------
(* client/tracking.js *)

\* a params object holds keys and values; Object.keys reads the keys only
ParamsObj(keys, vals) == [t |-> "params", keys |-> keys, vals |-> vals]

\* the deployed worker's base URL
WorkerBase == "https://worker.example"
\* the context object: apiBaseUrl and apiKey
Context(base, key) == [t |-> "context", apiBaseUrl |-> base, apiKey |-> key]
\* what skillFn returns: an object with a count or with pages
ResultObj(count, pages) == [t |-> "result", count |-> count, pages |-> pages]
JSArray(len) == [t |-> "array", length |-> len]
\* result.count, result.pages
PropCount(v) == IF v.t = "result" THEN v.count ELSE JSUndef
PropPages(v) == IF v.t = "result" THEN v.pages ELSE JSUndef
\* x?.length
OptLength(v) ==
  IF IsNullish(v) THEN JSUndef
  ELSE IF v.t = "array" THEN JSNum(v.length) ELSE JSUndef

\* result.count || result.pages?.length || null   (result not nullish)
ResultCount(result) ==
  Or(Or(PropCount(result), OptLength(PropPages(result))), JSNull)

\* the event object handed to logSkillEvent
Event(skillName, duration, status, errorType, errorMessage, metadata) ==
  [ skillName |-> skillName, category |-> JSUndef, duration |-> duration,
    status |-> status, errorType |-> errorType,
    errorMessage |-> errorMessage, metadata |-> metadata ]

Metadata(keys, count) ==
  [t |-> "metadata", params_keys |-> keys, result_count |-> count]

\* a success event whose metadata holds the parameters' values
SuccessEventWithValues(skillName, duration, params, result) ==
  IF IsNullish(params)
  THEN [threw |-> TRUE,
        error |-> TypeErr("Cannot convert undefined or null to object")]
  ELSE IF IsNullish(result)
  THEN [threw |-> TRUE,
        error |-> TypeErr("Cannot read properties of undefined")]
  ELSE [threw |-> FALSE,
        event |-> Event(JSStr(skillName), JSNum(duration), JSStr("success"),
                        JSUndef, JSUndef,
                        Metadata(params.vals, ResultCount(result)))]

\* tracking.js:54-62: the argument of the first logSkillEvent call. Its
\* evaluation reads Object.keys(params) and then result.count, both of which
\* throw a TypeError on undefined/null, inside the wrapper's try block.
SuccessEvent(skillName, duration, params, result) ==
  IF IsNullish(params)
  THEN [threw |-> TRUE,
        error |-> TypeErr("Cannot convert undefined or null to object")]
  ELSE IF IsNullish(result)
  THEN [threw |-> TRUE,
        error |-> TypeErr("Cannot read properties of undefined")]
  ELSE [threw |-> FALSE,
        event |-> Event(JSStr(skillName), JSNum(duration), JSStr("success"),
                        JSUndef, JSUndef,
                        Metadata(params.keys, ResultCount(result)))]

\* tracking.js:67-73: the argument of the logSkillEvent call of the catch
\* block; error.name throws a TypeError when the caught value is nullish.
ErrorEvent(skillName, duration, error) ==
  IF IsNullish(error)
  THEN [threw |-> TRUE,
        error |-> TypeErr("Cannot read properties of undefined")]
  ELSE [threw |-> FALSE,
        event |-> Event(JSStr(skillName), JSNum(duration), JSStr("error"),
                        ErrProp(error, "name"), ErrProp(error, "message"), JSUndef)]

\* JSON.stringify throws a TypeError on a BigInt
CanStringify(m) == m.result_count.t # "bigint"
\* JSON.stringify(v): a string holding the JSON text of v
JSONText(v) == [t |-> "jsontext", json |-> v]

\* the headers an /api/track request arrives with; get() of an absent
\* header is null
Headers(session, authorization, ip, ua) ==
  [session |-> session, authorization |-> authorization, ip |-> ip, ua |-> ua]

IP1 == "203.0.113.7"
IP2 == "198.51.100.9"
UA == "curl/8"
\* the address the edge sees for a wrapper running on client p
ClientIP(p) == IF p % 2 = 1 THEN IP1 ELSE IP2

\* tracking.js:18-33: the request logSkillEvent hands to fetch
TrackRequest(context, event, ip) ==
  [ url |-> TemplateString(context.apiBaseUrl) \o "/api/track",
    headers |-> Headers(JSNull,
                        JSStr("Bearer " \o TemplateString(context.apiKey)),
                        JSStr(ip), JSStr(UA)),
    body |-> JSONText(
      [ t |-> "object", tool_name |-> event.skillName,
        tool_category |-> Or(event.category, JSStr("cms_ontology")),
        duration_ms |-> event.duration,
        status |-> event.status,
        error_type |-> Or(event.errorType, JSNull),
        error_message |-> Or(event.errorMessage, JSNull),
        metadata |-> IF Truthy(event.metadata)
                     THEN JSONText(event.metadata) ELSE JSNull ]) ]

\* a logSkillEvent whose catch block lets the failure out
LogCatchRethrow(error) == [k |-> "rejected", via |-> "catch", err |-> error]

\* tracking.js:34-37: the catch block of logSkillEvent reads error.message
\* and returns; reading it off undefined/null would throw out of the catch.
LogCatch(error) ==
  IF IsNullish(error)
  THEN [k |-> "rejected", via |-> "catch",
        err |-> TypeErr("Cannot read properties of undefined")]
  ELSE [k |-> "resolved", via |-> "catch"]

\* tracking.js:18-33: the awaited fetch resolved; logSkillEvent returns
LogReturn == [k |-> "resolved", via |-> "return"]

\* tracking.js:13-33: logSkillEvent up to its await. Either a failure is
\* caught at once (the promise settles) or a request is handed to fetch.
LogSync(context, event, ip) ==
  IF IsNullish(context)
  THEN [k |-> "settled", out |-> LogCatch(TypeErr("Cannot destructure"))]
  ELSE IF Truthy(event.metadata) /\ ~CanStringify(event.metadata)
  THEN [k |-> "settled", out |-> LogCatch(TypeErr("BigInt not serializable"))]
  ELSE [k |-> "fetch", req |-> TrackRequest(context, event, ip)]

---------------------------------------------------------------------------
(* trackSkillExecution, tracking.js:47-77 *)

NoOutcome == [kind |-> "none", val |-> JSUndef]
NoRequest == [url |-> "none"]

\* a call that has not been made yet
IdleInv ==
  [ pc |-> "idle", skillName |-> "", params |-> JSUndef, context |-> JSUndef,
    startTime |-> 0, fn |-> NoOutcome, phase |-> "none",
    result |-> JSUndef, error |-> JSUndef, events |-> <<>>, logOuts |-> <<>>,
    request |-> NoRequest, net |-> "none", outcome |-> NoOutcome,
    fnCalls |-> <<>> ]

\* tracking.js:51: skillFn(params, context) is called
CallSkillFn(r) ==
  [r EXCEPT !.pc = "running",
            !.fnCalls = Append(@, [params |-> r.params, context |-> r.context])]

\* a logSkillEvent call of r has settled with `out`
Settled(r, out) ==
  [r EXCEPT !.logOuts = Append(@, [k |-> out.k, via |-> out.via])]

\* the wrapper's promise settles: `return result` or `throw error`
Finish(r, kind, val) ==
  [r EXCEPT !.pc = "done", !.outcome = [kind |-> kind, val |-> val],
            !.request = NoRequest, !.net = "none"]

\* tracking.js:67-75: the logSkillEvent of the catch block has settled
AfterLogCatch(r, out, tick, p) ==
  IF out.k = "resolved"
  THEN Finish(r, "throw", r.error)
  ELSE Finish(r, "throw", out.err)

\* `await logSkillEvent(context, event)`: the call is made (one more event
\* submitted); it settles at once or leaves a request in flight
CallLog(r, event, p) ==
  LET r2 == [r EXCEPT !.events = Append(@, event)]
      ls == LogSync(r.context, event, ClientIP(p))
  IN  IF ls.k = "fetch"
      THEN [ settled |-> FALSE,
             r |-> [r2 EXCEPT !.pc = "awaitLog", !.request = ls.req,
                              !.net = "sent"] ]
      ELSE [settled |-> TRUE, r |-> Settled(r2, ls.out), out |-> ls.out]

\* a catch block that runs skillFn once more before it logs
CatchPhaseRetry(r, error, tick, p) ==
  LET r1 == [CallSkillFn(r) EXCEPT !.pc = r.pc, !.phase = "catch",
                                   !.error = error]
      ee == ErrorEvent(r.skillName, tick - r.startTime, error)
  IN  IF ee.threw
      THEN Finish(r1, "throw", ee.error)
      ELSE LET c == CallLog(r1, ee.event, p)
           IN  IF c.settled THEN AfterLogCatch(c.r, c.out, tick, p) ELSE c.r

\* tracking.js:65-76: the catch block, entered with the caught value
CatchPhase(r, error, tick, p) ==
  LET r1 == [r EXCEPT !.phase = "catch", !.error = error]
      ee == ErrorEvent(r.skillName, tick - r.startTime, error)
  IN  IF ee.threw
      THEN Finish(r1, "throw", ee.error)
      ELSE LET c == CallLog(r1, ee.event, p)
           IN  IF c.settled THEN AfterLogCatch(c.r, c.out, tick, p) ELSE c.r

\* tracking.js:54-64: the logSkillEvent of the try block has settled
AfterLogTry(r, out, tick, p) ==
  IF out.k = "resolved"
  THEN Finish(r, "return", r.result)
  ELSE CatchPhase(r, out.err, tick, p)

\* tracking.js:51-64: the try block after skillFn returned `result`
TryPhase(r, result, tick, p) ==
  LET r1 == [r EXCEPT !.phase = "try", !.result = result]
      se == SuccessEvent(r.skillName, tick - r.startTime, r.params, result)
  IN  IF se.threw
      THEN CatchPhase(r1, se.error, tick, p)
      ELSE LET c == CallLog(r1, se.event, p)
           IN  IF c.settled THEN AfterLogTry(c.r, c.out, tick, p) ELSE c.r

\* the pending logSkillEvent settles with `out`
AfterLog(r, out, tick, p) ==
  IF r.phase = "try"
  THEN AfterLogTry(Settled(r, out), out, tick, p)
  ELSE AfterLogCatch(Settled(r, out), out, tick, p)

---------------------------------------------------------------------------
(* server/tracking-utils.js: identity *)

\* crypto.subtle.digest('SHA-256', encoder.encode(text)): the 32 bytes of
\* the digest of the text's UTF-8 bytes, tabulated for the texts of this
\* model
SHA256 ==
       "anonymous" :>
         <<47, 24, 58, 78, 100, 73, 58, 243, 243, 119, 247, 69, 237, 165, 2, 54,
           60, 211, 231, 239, 110, 77, 38, 109, 68, 71, 88, 222, 10, 133, 252, 200>>
    @@ "203.0.113.7" :>
         <<254, 197, 37, 101, 170, 12, 241, 143, 87, 215, 207, 91, 58, 199, 40, 80,
           59, 137, 146, 210, 214, 247, 212, 109, 161, 209, 32, 16, 144, 144, 43, 2>>
    @@ "198.51.100.9" :>
         <<43, 163, 253, 242, 45, 53, 122, 233, 129, 170, 103, 140, 179, 148, 99, 194,
           224, 115, 166, 47, 188, 224, 91, 137, 39, 5, 94, 141, 61, 27, 189, 240>>
    @@ "sess-1" :>
         <<171, 230, 51, 243, 164, 122, 39, 88, 23, 78, 171, 233, 22, 13, 175, 54,
           196, 177, 163, 62, 134, 66, 235, 249, 110, 143, 145, 195, 252, 189, 95, 156>>
    @@ "sess-2" :>
         <<43, 142, 169, 117, 129, 19, 97, 174, 226, 92, 254, 181, 12, 190, 8, 74,
           196, 220, 97, 222, 12, 211, 159, 5, 226, 180, 236, 50, 192, 243, 84, 112>>
    @@ "Bearer k1" :>
         <<213, 49, 206, 61, 253, 137, 20, 3, 98, 87, 190, 149, 125, 166, 236, 68,
           98, 51, 184, 34, 73, 78, 194, 157, 226, 16, 15, 201, 96, 252, 20, 38>>
    @@ "Bearer undefined" :>
         <<192, 7, 2, 248, 81, 14, 100, 67, 61, 160, 111, 52, 34, 7, 5, 149,
           252, 224, 89, 107, 157, 179, 97, 72, 37, 26, 210, 226, 223, 134, 118, 108>>
    @@ "203.0.113.7_curl/8" :>
         <<22, 155, 15, 106, 226, 100, 153, 166, 170, 36, 50, 32, 65, 244, 218, 103,
           27, 135, 158, 117, 109, 1, 32, 217, 8, 201, 251, 146, 68, 93, 29, 244>>
    @@ "198.51.100.9_curl/8" :>
         <<52, 40, 254, 192, 225, 33, 0, 112, 196, 30, 154, 223, 28, 93, 145, 28,
           86, 42, 185, 6, 191, 179, 71, 90, 191, 249, 16, 82, 143, 197, 199, 114>>
    @@ "null_curl/8" :>
         <<111, 130, 174, 189, 138, 19, 131, 109, 222, 220, 116, 58, 202, 110, 189, 12,
           171, 8, 13, 63, 189, 116, 193, 172, 172, 21, 173, 167, 3, 142, 23, 103>>
    @@ "203.0.113.7_null" :>
         <<118, 151, 122, 221, 215, 43, 140, 63, 124, 21, 125, 76, 47, 203, 162, 197,
           179, 165, 71, 9, 204, 11, 196, 9, 220, 38, 150, 144, 146, 125, 100, 136>>
    @@ "198.51.100.9_null" :>
         <<247, 220, 124, 44, 130, 110, 165, 113, 194, 36, 1, 181, 170, 215, 52, 28,
           56, 192, 40, 47, 69, 140, 178, 65, 138, 148, 136, 104, 94, 83, 66, 105>>
    @@ "null_null" :>
         <<228, 135, 169, 37, 246, 4, 241, 94, 192, 102, 74, 252, 129, 78, 162, 16,
           134, 183, 151, 223, 174, 135, 19, 255, 64, 110, 229, 77, 67, 109, 78, 119>>
    @@ "" :>
         <<227, 176, 196, 66, 152, 252, 28, 20, 154, 251, 244, 200, 153, 111, 185, 36,
           39, 174, 65, 228, 100, 155, 147, 76, 164, 149, 153, 27, 120, 82, 184, 85>>
    @@ "fec52565aa0cf18f57d7cf5b3ac72850" :>
         <<77, 231, 210, 2, 198, 205, 150, 164, 135, 100, 59, 41, 86, 196, 32, 4,
           134, 43, 22, 115, 226, 186, 13, 42, 195, 20, 30, 235, 11, 226, 7, 156>>

\* b.toString(16): one digit below 16, two from there on
ToString16(b) ==
  LET digit(n) == SubSeq("0123456789abcdef", n + 1, n + 1)
  IN  IF b < 16 THEN digit(b) ELSE digit(b \div 16) \o digit(b % 16)
\* s.padStart(2, '0')
PadStart2(s) == IF Len(s) < 2 THEN "0" \o s ELSE s

\* parts.join('')
Join(parts) ==
  LET joined[k \in 0..Len(parts)] ==
        IF k = 0 THEN "" ELSE joined[k - 1] \o parts[k]
  IN  joined[Len(parts)]

\* a join that is not cut
SliceNone(s, n) == s
\* s.slice(0, n)
SliceTo(s, n) == SubSeq(s, 1, IF Len(s) < n THEN Len(s) ELSE n)

\* hashUserId, tracking-utils.js:14-20: the first 32 hex characters of the
\* SHA-256 of the identifier, for every identifier whose digest is tabulated
HashUserIds ==
  [ identifier \in DOMAIN SHA256 |->
      LET hashArray == SHA256[identifier]
      IN  SliceTo(Join([k \in 1..Len(hashArray) |->
                          PadStart2(ToString16(hashArray[k]))]), 32) ]

\* a call of hashUserId
hashUserId(identifier) == HashUserIds[identifier]

\* extractUserIdentifier, tracking-utils.js:28-34
extractUserIdentifier(headers) ==
  Or(Or(headers.session, headers.authorization),
     JSStr(TemplateString(headers.ip) \o "_" \o TemplateString(headers.ua)))

---------------------------------------------------------------------------
(* The event store: table skill_usage_events of migration 001, on D1 *)

Statuses == {"success", "error", "timeout"}

\* D1's bind() refuses undefined (D1_TYPE_ERROR)
BindThrows(values) == \E f \in DOMAIN values : values[f].t = "undefined"

\* NOT NULL on user_id_hash, tool_name and status; the CHECK on status
ConstraintsHold(values) ==
  /\ values.user_id_hash.t # "null"
  /\ values.tool_name.t # "null"
  /\ values.status.t = "string"
  /\ values.status.s \in Statuses

\* an INSERT OR REPLACE that lands on the newest row instead of adding one
D1InsertOrReplace(st, values, tick) ==
  LET row == [ id |-> Len(st), user_id_hash |-> values.user_id_hash,
               tool_name |-> values.tool_name,
               tool_category |-> values.tool_category,
               timestamp |-> CurrentTimestamp(tick),
               duration_ms |-> values.duration_ms, status |-> values.status,
               error_type |-> values.error_type,
               error_message |-> values.error_message,
               metadata |-> values.metadata ]
  IN  IF st = <<>> THEN <<[row EXCEPT !.id = 1]>>
      ELSE [st EXCEPT ![Len(st)] = row]

\* an INSERT OR IGNORE into a table with a uniqueness constraint over the
\* written columns: an event equal to a stored one adds no row
D1InsertOrIgnore(st, values, tick) ==
  LET row == [ id |-> Len(st) + 1, user_id_hash |-> values.user_id_hash,
               tool_name |-> values.tool_name,
               tool_category |-> values.tool_category,
               timestamp |-> CurrentTimestamp(tick),
               duration_ms |-> values.duration_ms, status |-> values.status,
               error_type |-> values.error_type,
               error_message |-> values.error_message,
               metadata |-> values.metadata ]
  IN  IF \E i \in 1..Len(st) : [st[i] EXCEPT !.id = row.id] = row
      THEN st ELSE Append(st, row)

\* the INSERT: id from AUTOINCREMENT, timestamp from DEFAULT CURRENT_TIMESTAMP;
\* request_size_bytes and response_size_bytes are never written and left out
D1Insert(st, values, tick) ==
  Append(st, [ id |-> Len(st) + 1,
               user_id_hash |-> values.user_id_hash,
               tool_name |-> values.tool_name,
               tool_category |-> values.tool_category,
               timestamp |-> CurrentTimestamp(tick),
               duration_ms |-> values.duration_ms,
               status |-> values.status,
               error_type |-> values.error_type,
               error_message |-> values.error_message,
               metadata |-> values.metadata ])

---------------------------------------------------------------------------
(* server/tracking-utils.js: logUsageEvent *)

\* the Worker environment: its DB binding is D1 or is missing
Env(db) == [t |-> "env", DB |-> db]

\* the event object logUsageEvent is given; an absent field reads undefined
UsageEvent(userIdHash, toolName, durationMs, status, errorType, metadata) ==
  [ t |-> "object", userIdHash |-> userIdHash, toolName |-> toolName,
    toolCategory |-> JSUndef, durationMs |-> durationMs, status |-> status,
    errorType |-> errorType, errorMessage |-> JSNull, metadata |-> metadata ]

\* tracking-utils.js:50-59: the values bound to the INSERT
UsageValues(event) ==
  [ user_id_hash |-> event.userIdHash,
    tool_name |-> event.toolName,
    tool_category |-> Or(event.toolCategory, JSStr("cms_ontology")),
    duration_ms |-> event.durationMs,
    status |-> event.status,
    error_type |-> Or(event.errorType, JSNull),
    error_message |-> Or(event.errorMessage, JSNull),
    metadata |-> IF Truthy(event.metadata)
                 THEN JSONText(event.metadata) ELSE JSNull ]

\* a catch block that lets the failure out
UsageCatchRethrow(st, error) ==
  [store |-> st, out |-> [k |-> "rejected", via |-> "catch"]]

\* tracking-utils.js:60-63: the catch block hands the error to console.error,
\* reading nothing off it, and returns
UsageCatch(st, error) ==
  [store |-> st, out |-> [k |-> "resolved", via |-> "catch"]]

\* logUsageEvent, tracking-utils.js:42-64. unavailable: the database fails
\* the statement. Yields the store and how the promise settled.
logUsageEvent(env, event, st, tick, unavailable) ==
  IF IsNullish(env) \/ IsNullish(env.DB)
  THEN UsageCatch(st, TypeErr("Cannot read properties of undefined"))
  ELSE IF IsNullish(event)
  THEN UsageCatch(st, TypeErr("Cannot read properties of null"))
  ELSE IF Truthy(event.metadata) /\ ~CanStringify(event.metadata)
  THEN UsageCatch(st, TypeErr("BigInt not serializable"))
  ELSE IF BindThrows(UsageValues(event))
  THEN UsageCatch(st, JSError("Error", "D1_TYPE_ERROR"))
  ELSE IF unavailable
  THEN UsageCatch(st, JSError("Error", "D1_ERROR"))
  ELSE IF ~ConstraintsHold(UsageValues(event))
  THEN UsageCatch(st, JSError("Error", "SQLITE_CONSTRAINT"))
  ELSE [ store |-> D1Insert(st, UsageValues(event), tick),
         out |-> [k |-> "resolved", via |-> "return"] ]

---------------------------------------------------------------------------
(* POST /api/track, examples/worker-integration.js:26-59 *)

\* the body of a request as sent: JSON text, or text that is not JSON
BadJSON == [t |-> "badjson"]
\* an event object as a client may post it; an absent field reads undefined
RawEvent(tool_name, category, duration_ms, status, error_type, metadata) ==
  [ t |-> "object", tool_name |-> tool_name, tool_category |-> category,
    duration_ms |-> duration_ms, status |-> status,
    error_type |-> error_type, error_message |-> JSUndef,
    metadata |-> metadata ]

\* await request.json()
ParseBody(body) ==
  IF body.t = "badjson"
  THEN [threw |-> TRUE, error |-> JSError("SyntaxError", "Unexpected token")]
  ELSE [threw |-> FALSE, value |-> body.json]

\* an endpoint that takes its identifier from extractUserIdentifier
TrackIdentifierByPriority(headers) == extractUserIdentifier(headers)

\* worker-integration.js:31: request.headers.get('cf-connecting-ip') || 'anonymous'
TrackIdentifier(headers) == Or(headers.ip, JSStr("anonymous"))

\* a bind list that puts the category where the tool name belongs
TrackValuesMisbound(headers, event) ==
  [ user_id_hash |-> JSStr(hashUserId(TemplateString(TrackIdentifier(headers)))),
    tool_name |-> Or(event.tool_category, JSStr("default")),
    tool_category |-> Or(event.tool_category, JSStr("default")),
    duration_ms |-> event.duration_ms,
    status |-> event.status,
    error_type |-> Or(event.error_type, JSNull),
    error_message |-> Or(event.error_message, JSNull),
    metadata |-> Or(event.metadata, JSNull) ]

\* worker-integration.js:39-48: the values bound to the INSERT
TrackValues(headers, event) ==
  [ user_id_hash |-> JSStr(hashUserId(TemplateString(TrackIdentifier(headers)))),
    tool_name |-> event.tool_name,
    tool_category |-> Or(event.tool_category, JSStr("default")),
    duration_ms |-> event.duration_ms,
    status |-> event.status,
    error_type |-> Or(event.error_type, JSNull),
    error_message |-> Or(event.error_message, JSNull),
    metadata |-> Or(event.metadata, JSNull) ]

\* a failure response that forgets its status
ErrResponseNoStatus(message) == [status |-> 200, success |-> FALSE, error |-> message]

\* worker-integration.js:50-52 and 53-58
OkResponse == [status |-> 200, success |-> TRUE, message |-> "Event tracked"]
ErrResponse(message) == [status |-> 500, success |-> FALSE, error |-> message]

\* The handler of POST /api/track. unavailable: the database fails the
\* statement (D1 down, over quota). Yields the store and the response.
TrackHandler(request, st, tick, unavailable) ==
  LET parsed == ParseBody(request.body)
      event == parsed.value
      values == TrackValues(request.headers, event)
      failed(msg) == [store |-> st, response |-> ErrResponse(msg), rowid |-> 0]
  IN  IF parsed.threw THEN failed(parsed.error.message)
      ELSE IF IsNullish(event) THEN failed("Cannot read properties of null")
      ELSE IF BindThrows(values) THEN failed("D1_TYPE_ERROR")
      ELSE IF unavailable THEN failed("D1_ERROR")
      ELSE IF ~ConstraintsHold(values) THEN failed("SQLITE_CONSTRAINT")
      ELSE [store |-> D1Insert(st, values, tick), response |-> OkResponse,
            rowid |-> Len(st) + 1]

---------------------------------------------------------------------------
(* analytics/analytics.js *)

RECURSIVE NatChars(_)
\* the decimal digits of a natural number
NatChars(n) ==
  IF n < 10 THEN <<48 + n>> ELSE NatChars(n \div 10) \o <<48 + (n % 10)>>

\* `${days} days`
Period(days) ==
  (IF days < 0 THEN <<45>> \o NatChars(-days) ELSE NatChars(days))
    \o <<32, 100, 97, 121, 115>>

\* (count / total * 100).toFixed(2), total > 0
ToFixed2(count, total) ==
  LET h == (count * 20000 + total) \div (2 * total)
  IN  NatChars(h \div 100) \o <<46>> \o TwoDigits(h % 100)

\* '0.00'
ZeroRate == <<48, 46, 48, 48>>

RECURSIVE SumOver(_, _)
\* the sum of f[x] over the finite set S
SumOver(f, S) ==
  IF S = {} THEN 0
  ELSE LET x == CHOOSE y \in S : TRUE IN f[x] + SumOver(f, S \ {x})

\* WHERE timestamp >= ?  with ? bound to since.toISOString(): the rows
\* selected, by SQLite's text comparison
RowsSince(st, tick, days) ==
  { i \in 1..Len(st) :
      TextGE(st[i].timestamp, ToISOString(SinceDate(tick, days))) }

\* Math.round(AVG(duration_ms) || 0) over the rows R: AVG skips NULLs and is
\* NULL when there is no number to average
AvgDuration(st, R) ==
  LET N == { i \in R : st[i].duration_ms.t = "number" }
      sum == SumOver([i \in N |-> st[i].duration_ms.n], N)
  IN  IF N = {} THEN 0
      ELSE (2 * sum + Cardinality(N)) \div (2 * Cardinality(N))

\* a count that takes every event that did not succeed for an error
StatusCountLoose(st, R, s) ==
  IF s = "error"
  THEN Cardinality({ i \in R : st[i].status # JSStr("success") })
  ELSE Cardinality({ i \in R : st[i].status = JSStr(s) })

\* SUM(CASE WHEN status = s THEN 1 ELSE 0 END)
StatusCount(st, R, s) == Cardinality({ i \in R : st[i].status = JSStr(s) })

\* a getSummary without the guard of analytics.js:32: over no rows SUM is
\* NULL, and (null / 0 * 100).toFixed(2) is 'NaN'
getSummaryUnguarded(st, tick, days) ==
  LET R == RowsSince(st, tick, days)
      total == Cardinality(R)
  IN  IF total = 0
      THEN [ period |-> Period(days), total_invocations |-> 0,
             unique_users |-> 0, avg_duration_ms |-> 0,
             success_rate |-> <<78, 97, 78>>, error_rate |-> <<78, 97, 78>> ]
      ELSE [ period |-> Period(days), total_invocations |-> total,
             unique_users |-> Cardinality({ st[i].user_id_hash : i \in R }),
             avg_duration_ms |-> AvgDuration(st, R),
             success_rate |-> ToFixed2(StatusCount(st, R, "success"), total),
             error_rate |-> ToFixed2(StatusCount(st, R, "error"), total) ]

\* getSummary, analytics.js:14-51
getSummary(st, tick, days) ==
  LET R == RowsSince(st, tick, days)
      total == Cardinality(R)
  IN  IF total = 0
      THEN [ period |-> Period(days), total_invocations |-> 0,
             unique_users |-> 0, avg_duration_ms |-> 0,
             success_rate |-> ZeroRate, error_rate |-> ZeroRate ]
      ELSE [ period |-> Period(days), total_invocations |-> total,
             unique_users |-> Cardinality({ st[i].user_id_hash : i \in R }),
             avg_duration_ms |-> AvgDuration(st, R),
             success_rate |-> ToFixed2(StatusCount(st, R, "success"), total),
             error_rate |-> ToFixed2(StatusCount(st, R, "error"), total) ]

\* the possible result orders of ORDER BY ... DESC: the sequences holding
\* each element of S once in which no element precedes one of higher rank.
\* SQLite leaves the order of rows that tie unspecified.
OrderByDesc(S, rank) ==
  { o \in [1..Cardinality(S) -> S] :
      /\ \A i, j \in DOMAIN o : i # j => o[i] # o[j]
      /\ \A i, j \in DOMAIN o : i < j => rank[o[i]] >= rank[o[j]] }

\* getToolStats, analytics.js:59-85: the results it may return
getToolStats(st, tick, days) ==
  LET R == RowsSince(st, tick, days)
      group(t) == { i \in R : st[i].tool_name = t }
      entry(t) ==
        [ tool_name |-> t, invocations |-> Cardinality(group(t)),
          avg_duration_ms |-> AvgDuration(st, group(t)),
          success_rate |-> ToFixed2(StatusCount(st, group(t), "success"),
                                    Cardinality(group(t))),
          error_rate |-> ToFixed2(StatusCount(st, group(t), "error"),
                                  Cardinality(group(t))) ]
      entries == { entry(st[i].tool_name) : i \in R }
  IN  OrderByDesc(entries, [e \in entries |-> e.invocations])

\* a cut-off written as toISOString writes it
DatetimeNowMinusISO(tick, n) == ToISOString(tick - n * TicksPerDay)

\* datetime('now', '-N days'): 'YYYY-MM-DD HH:MM:SS'
DatetimeNowMinus(tick, n) == CurrentTimestamp(tick - n * TicksPerDay)

\* DATE(timestamp): 'YYYY-MM-DD'
DateOf(ts) == SubSeq(ts, 1, 10)

\* a getRetentionStats whose weekly count is taken over the requested window
getRetentionStatsWindowed(st, tick, days) ==
  LET D == { i \in 1..Len(st) :
               TextGE(st[i].timestamp, DatetimeNowMinus(tick, days)) }
      entry(d) ==
        [ date |-> d,
          dau |-> Cardinality({ st[i].user_id_hash :
                                  i \in { k \in D : DateOf(st[k].timestamp) = d } }) ]
      entries == { entry(DateOf(st[i].timestamp)) : i \in D }
      earlier(e) == { f \in entries : TextLess(f.date, e.date) }
      daily == OrderByDesc(entries, [e \in entries |-> Cardinality(earlier(e))])
  IN  [ daily_active_users |-> CHOOSE o \in daily : TRUE,
        weekly_active_users |-> Cardinality({ st[i].user_id_hash : i \in D }),
        period |-> Period(days) ]

\* getRetentionStats, analytics.js:93-122
getRetentionStats(st, tick, days) ==
  LET D == { i \in 1..Len(st) :
               TextGE(st[i].timestamp, DatetimeNowMinus(tick, days)) }
      W == { i \in 1..Len(st) :
               TextGE(st[i].timestamp, DatetimeNowMinus(tick, 7)) }
      entry(d) ==
        [ date |-> d,
          dau |-> Cardinality({ st[i].user_id_hash :
                                  i \in { k \in D : DateOf(st[k].timestamp) = d } }) ]
      entries == { entry(DateOf(st[i].timestamp)) : i \in D }
      earlier(e) == { f \in entries : TextLess(f.date, e.date) }
      daily == OrderByDesc(entries, [e \in entries |-> Cardinality(earlier(e))])
  IN  [ daily_active_users |-> CHOOSE o \in daily : TRUE,
        weekly_active_users |-> Cardinality({ st[i].user_id_hash : i \in W }),
        period |-> Period(days) ]

\* a getRecentErrors that looks at the errors of all time
getRecentErrorsAllTime(st, tick, days, limit) ==
  LET E == { i \in 1..Len(st) : st[i].status = JSStr("error") }
      earlier(i) == { j \in E : TextLess(st[j].timestamp, st[i].timestamp) }
      n == IF limit < 0 \/ Cardinality(E) < limit
           THEN Cardinality(E) ELSE limit
      column(i) ==
        [ timestamp |-> st[i].timestamp, tool_name |-> st[i].tool_name,
          error_type |-> st[i].error_type,
          error_message |-> st[i].error_message,
          duration_ms |-> st[i].duration_ms ]
  IN  { [ errors |-> [k \in 1..n |-> column(o[k])], count |-> n ] :
          o \in OrderByDesc(E, [i \in E |-> Cardinality(earlier(i))]) }

\* getRecentErrors, analytics.js:131-154: the results it may return
getRecentErrors(st, tick, days, limit) ==
  LET E == { i \in RowsSince(st, tick, days) : st[i].status = JSStr("error") }
      earlier(i) == { j \in E : TextLess(st[j].timestamp, st[i].timestamp) }
      \* LIMIT ?: a negative limit is no limit
      n == IF limit < 0 \/ Cardinality(E) < limit
           THEN Cardinality(E) ELSE limit
      column(i) ==
        [ timestamp |-> st[i].timestamp, tool_name |-> st[i].tool_name,
          error_type |-> st[i].error_type,
          error_message |-> st[i].error_message,
          duration_ms |-> st[i].duration_ms ]
  IN  { [ errors |-> [k \in 1..n |-> column(o[k])], count |-> n ] :
          o \in OrderByDesc(E, [i \in E |-> Cardinality(earlier(i))]) }

---------------------------------------------------------------------------
(* The analytics endpoints, examples/worker-integration.js:61-93 *)

\* the value of a decimal digit, -1 for any other character
DigitOf(c) ==
  CASE c = "0" -> 0 [] c = "1" -> 1 [] c = "2" -> 2 [] c = "3" -> 3
    [] c = "4" -> 4 [] c = "5" -> 5 [] c = "6" -> 6 [] c = "7" -> 7
    [] c = "8" -> 8 [] c = "9" -> 9 [] OTHER -> -1

RECURSIVE DigitCount(_)
\* the number of decimal digits a text begins with
DigitCount(text) ==
  IF text = "" \/ DigitOf(SubSeq(text, 1, 1)) < 0 THEN 0
  ELSE 1 + DigitCount(SubSeq(text, 2, Len(text)))

RECURSIVE DecimalValue(_, _)
\* the number the first n characters of a text denote
DecimalValue(text, n) ==
  IF n = 0 THEN 0
  ELSE DecimalValue(text, n - 1) * 10 + DigitOf(SubSeq(text, n, n))

\* parseInt(text), for a text without leading blanks: an optional sign and
\* the digits that follow it; NaN when no digit follows
ParseInt(text) ==
  LET signed == text # "" /\ SubSeq(text, 1, 1) \in {"-", "+"}
      digits == IF signed THEN SubSeq(text, 2, Len(text)) ELSE text
      n == DigitCount(digits)
  IN  IF n = 0 THEN JSNaN
      ELSE IF signed /\ SubSeq(text, 1, 1) = "-"
      THEN JSNum(0 - DecimalValue(digits, n))
      ELSE JSNum(DecimalValue(digits, n))

\* url.searchParams: get() of an absent parameter is null
SearchParams(days, limit) == [days |-> days, limit |-> limit]

\* a response built by the handler, and the exception that leaves fetch()
\* when nothing catches it
JsonResponse(data) == [kind |-> "json", status |-> 200, body |-> data]
Uncaught(error) == [kind |-> "exception", error |-> error]

\* getRetentionStats with the days it is handed: datetime('now', '-N days')
\* is NULL for a modifier that is no number of days ('-NaN days',
\* '--1 days'), and no timestamp compares with NULL
RetentionFor(st, tick, days) ==
  IF days = JSNaN \/ days.n < 0
  THEN [ daily_active_users |-> <<>>,
         weekly_active_users |-> getRetentionStats(st, tick, 0).weekly_active_users,
         period |-> IF days = JSNaN THEN <<78, 97, 78, 32, 100, 97, 121, 115>>
                    ELSE Period(days.n) ]
  ELSE getRetentionStats(st, tick, days.n)

\* worker-integration.js:61-93: the responses the handler may give to a GET
\* of `path` with these query parameters
AnalyticsHandler(path, query, st, tick) ==
  LET daysOf(default) == ParseInt(Or(query.days, JSStr(default)).s)
      limit == ParseInt(Or(query.limit, JSStr("50")).s)
      \* since.toISOString() of a date set from NaN
      InvalidTime == JSError("RangeError", "Invalid time value")
  IN  CASE path = "/analytics/summary" ->
             IF daysOf("7") = JSNaN THEN {Uncaught(InvalidTime)}
             ELSE {JsonResponse(getSummary(st, tick, daysOf("7").n))}
        [] path = "/analytics/tools" ->
             IF daysOf("7") = JSNaN THEN {Uncaught(InvalidTime)}
             ELSE { JsonResponse(out) :
                      out \in getToolStats(st, tick, daysOf("7").n) }
        [] path = "/analytics/retention" ->
             {JsonResponse(RetentionFor(st, tick, daysOf("30")))}
        [] path = "/analytics/errors" ->
             IF daysOf("7") = JSNaN THEN {Uncaught(InvalidTime)}
             ELSE IF limit = JSNaN
             THEN {Uncaught(JSError("Error", "D1_ERROR: datatype mismatch"))}
             ELSE { JsonResponse(out) :
                      out \in getRecentErrors(st, tick, daysOf("7").n, limit.n) }

---------------------------------------------------------------------------
(* The dashboard, dashboard/app.js (unnamed/part_005:40-208) *)

RECURSIVE NatText(_)
\* `${n}` for a natural number
NatText(n) ==
  IF n < 10 THEN SubSeq("0123456789", n + 1, n + 1)
  ELSE NatText(n \div 10) \o SubSeq("0123456789", (n % 10) + 1, (n % 10) + 1)

\* `${v}` for a number
NumberText(v) == IF v = JSNaN THEN "NaN" ELSE NatText(v.n)

\* the responses of a load's four requests have not arrived
Pending == [t |-> "pending"]
\* nothing has been rendered
NoData == [t |-> "nodata"]

\* part_005:58-63: loadData reads currentDays and sends its four requests
StartLoad(d) ==
  [d EXCEPT !.loads =
     Append(@, [ query |-> SearchParams(JSStr(NumberText(d.currentDays)),
                                         JSStr("20")),
                 data |-> Pending ])]

\* part_005:65-69: the update functions render the data of a load
Render(d, i) ==
  [d EXCEPT !.shown = [ days |-> d.loads[i].query.days.s,
                        data |-> d.loads[i].data ],
            !.loads = SubSeq(@, 1, i - 1) \o SubSeq(@, i + 1, Len(@)),
            !.listening = TRUE]

\* part_005:70-72: the catch block writes a line to the console
LoadCatch(d, i) ==
  [d EXCEPT !.console = Append(@, "Failed to load analytics:"),
            !.loads = SubSeq(@, 1, i - 1) \o SubSeq(@, i + 1, Len(@)),
            !.listening = TRUE]

---------------------------------------------------------------------------
(* Inputs *)

GoodParams == ParamsObj(<<"topic", "limit">>, <<JSStr("cats"), JSNum(5)>>)
\* the same parameter names with other values
OtherParams == ParamsObj(<<"topic", "limit">>, <<JSStr("dogs"), JSNum(9)>>)
GoodContext == Context(JSStr(WorkerBase), JSStr("k1"))
Returns(v) == [kind |-> "return", val |-> v]
Throws(v) == [kind |-> "throw", val |-> v]
Call(skillName, params, context, fn) ==
  [skillName |-> skillName, params |-> params, context |-> context, fn |-> fn]

\* the calls of trackSkillExecution the model makes
Calls ==
  { Call("query_data", GoodParams, GoodContext, Returns(ResultObj(JSNum(3), JSUndef))),
    Call("get_page", GoodParams, GoodContext, Returns(ResultObj(JSUndef, JSArray(2)))),
    Call("query_data", GoodParams, GoodContext, Returns(ResultObj(JSBig(10), JSUndef))),
    Call("query_data", GoodParams, GoodContext, Returns(JSUndef)),
    Call("get_page", JSUndef, GoodContext, Returns(ResultObj(JSNum(3), JSUndef))),
    Call("query_data", GoodParams, JSUndef, Returns(ResultObj(JSNum(3), JSUndef))),
    Call("query_data", GoodParams, Context(JSUndef, JSUndef),
         Returns(ResultObj(JSNum(3), JSUndef))),
    Call("get_page", GoodParams, GoodContext,
         Throws(JSError("Error", "Missing required field"))),
    Call("get_page", GoodParams, GoodContext, Throws(JSUndef)),
    Call("query_data", GoodParams, JSUndef,
         Throws(JSError("Error", "Missing required field"))) }

\* calls of trackSkillExecution that differ in what the metadata is built
\* from: the values of params, a count of 0, pages, a primitive, undefined,
\* no params; and a skill that throws
MetadataCalls ==
  { Call("query_data", GoodParams, GoodContext, Returns(ResultObj(JSNum(3), JSUndef))),
    Call("query_data", OtherParams, GoodContext, Returns(ResultObj(JSNum(3), JSUndef))),
    Call("query_data", GoodParams, GoodContext, Returns(ResultObj(JSNum(0), JSUndef))),
    Call("query_data", GoodParams, GoodContext, Returns(ResultObj(JSUndef, JSArray(2)))),
    Call("query_data", GoodParams, GoodContext, Returns(JSStr("ok"))),
    Call("query_data", GoodParams, GoodContext, Returns(JSUndef)),
    Call("query_data", JSNull, GoodContext, Returns(ResultObj(JSNum(3), JSUndef))),
    Call("query_data", GoodParams, GoodContext,
         Throws(JSError("Error", "Missing required field"))),
    Call("query_data", OtherParams, GoodContext,
         Throws(JSError("Error", "Missing required field"))) }

NoHeader == JSNull
Request(headers, body) ==
  [url |-> WorkerBase \o "/api/track", headers |-> headers, body |-> body]
\* the event _track.sh posts
ShellEvent(tool_name, status) ==
  RawEvent(tool_name, JSStr("your_category"), JSNum(100), status, JSUndef, JSUndef)

\* well-formed events posted by clients other than the wrapper, with the
\* headers such clients send
WellFormedRequests ==
  { Request(Headers(NoHeader, NoHeader, JSStr(IP1), JSStr(UA)),
            JSONText(ShellEvent(JSStr("query_data"), JSStr("success")))),
    Request(Headers(NoHeader, NoHeader, NoHeader, NoHeader),
            JSONText(ShellEvent(JSStr("get_page"), JSStr("success")))),
    Request(Headers(JSStr("sess-1"), NoHeader, JSStr(IP1), JSStr(UA)),
            JSONText(RawEvent(JSStr("get_page"), JSUndef, JSNum(7), JSStr("error"),
                              JSStr("Error"), JSUndef))),
    Request(Headers(JSStr("sess-2"), NoHeader, JSStr(IP1), JSStr(UA)),
            JSONText(ShellEvent(JSStr("query_data"), JSStr("success")))),
    Request(Headers(NoHeader, JSStr("Bearer k1"), JSStr(IP2), JSStr(UA)),
            JSONText(ShellEvent(JSStr("get_page"), JSStr("timeout")))) }

\* posts with an empty, absent or null tool_name (_track.sh run without an
\* argument posts the first), a status outside the enumeration or absent, a
\* body that is null, a body that is not JSON
MalformedRequests ==
  { Request(Headers(NoHeader, NoHeader, JSStr(IP1), JSStr(UA)),
            JSONText(ShellEvent(JSStr(""), JSStr("success")))),
    Request(Headers(NoHeader, NoHeader, JSStr(IP1), JSStr(UA)),
            JSONText(ShellEvent(JSUndef, JSStr("success")))),
    Request(Headers(NoHeader, NoHeader, JSStr(IP1), JSStr(UA)),
            JSONText(ShellEvent(JSNull, JSStr("success")))),
    Request(Headers(NoHeader, NoHeader, JSStr(IP1), JSStr(UA)),
            JSONText(ShellEvent(JSStr("query_data"), JSStr("done")))),
    Request(Headers(NoHeader, NoHeader, JSStr(IP1), JSStr(UA)),
            JSONText(ShellEvent(JSStr("query_data"), JSUndef))),
    Request(Headers(NoHeader, NoHeader, JSStr(IP1), JSStr(UA)), JSONText(JSNull)),
    Request(Headers(NoHeader, NoHeader, JSStr(IP1), JSStr(UA)), BadJSON) }

\* the well-formed posts of two users for two tools, one of them an error
QueryRequests ==
  { r \in WellFormedRequests :
      /\ r.headers.authorization = NoHeader
      /\ r.headers.session # JSStr("sess-2") }

\* the well-formed posts for one tool: a success, an error and a timeout
RateRequests ==
  { r \in WellFormedRequests : r.body.json.tool_name = JSStr("get_page") }

\* posts that are JSON events with a tool name and a status of the
\* enumeration, and carry an error_type beside status 'success', a negative
\* duration_ms, a null duration_ms
UnvalidatedRequests ==
  { Request(Headers(NoHeader, NoHeader, JSStr(IP1), JSStr(UA)),
            JSONText(RawEvent(JSStr("query_data"), JSUndef, JSNum(100),
                              JSStr("success"), JSStr("Error"), JSUndef))),
    Request(Headers(NoHeader, NoHeader, JSStr(IP1), JSStr(UA)),
            JSONText(RawEvent(JSStr("query_data"), JSUndef, JSNum(-5),
                              JSStr("success"), JSUndef, JSUndef))),
    Request(Headers(NoHeader, NoHeader, JSStr(IP1), JSStr(UA)),
            JSONText(RawEvent(JSStr("query_data"), JSUndef, JSNull,
                              JSStr("success"), JSUndef, JSUndef))) }

\* the requests clients other than the wrapper post to /api/track
DirectRequests == WellFormedRequests \cup MalformedRequests

---------------------------------------------------------------------------
(* The state machine *)

NoExchange == [request |-> NoRequest, rowid |-> 0, before |-> 0]
\* the exchange made by a run h of the handler on request req: the response,
\* the row written (0: none), the rows held before, and whether the database
\* failed the statement
Exchange(req, h, n, unavailable) ==
  [ request |-> req, response |-> h.response, rowid |-> h.rowid,
    before |-> n, unavailable |-> unavailable ]
NoView == [fn |-> "none"]

Init ==
  /\ now = 0
  /\ store = <<>>
  /\ inv = [p \in Procs |-> IdleInv]
  /\ served = NoExchange
  /\ view = NoView
  \* part_005:41, 47-48, 208: the page has loaded and init() has called
  \* loadData; the buttons get their listeners, and the timer starts, when
  \* that first load has settled
  /\ dash = StartLoad([ currentDays |-> JSNum(7), listening |-> FALSE,
                        loads |-> <<>>, shown |-> NoData, console |-> <<>> ])

\* the clock advances
Tick ==
  /\ now < MaxTime
  /\ now' = now + 1
  /\ served' = NoExchange
  /\ view' = NoView
  /\ UNCHANGED <<dash, store, inv>>

\* a week goes by
WeekPasses ==
  /\ now <= MaxTime
  /\ now' = now + 7 * TicksPerDay
  /\ served' = NoExchange
  /\ view' = NoView
  /\ UNCHANGED <<dash, store, inv>>

\* tracking.js:47-51: trackSkillExecution is called with one of `calls`; it
\* reads the clock and calls skillFn
InvokeOf(p, calls) ==
  /\ inv[p].pc = "idle"
  /\ \E c \in calls :
       inv' = [inv EXCEPT ![p] =
                 CallSkillFn([IdleInv EXCEPT !.skillName = c.skillName,
                                             !.params = c.params,
                                             !.context = c.context,
                                             !.fn = c.fn, !.startTime = now])]
  /\ served' = NoExchange
  /\ view' = NoView
  /\ UNCHANGED <<dash, now, store>>

\* trackSkillExecution is called
Invoke(p) == InvokeOf(p, Calls)

\* tracking.js:51-73: skillFn settles; the wrapper builds its event and calls
\* logSkillEvent, which runs up to its fetch
SkillSettles(p) ==
  /\ inv[p].pc = "running"
  /\ inv' = [inv EXCEPT ![p] =
               IF inv[p].fn.kind = "return"
               THEN TryPhase(inv[p], inv[p].fn.val, now, p)
               ELSE CatchPhase(inv[p], inv[p].fn.val, now, p)]
  /\ served' = NoExchange
  /\ view' = NoView
  /\ UNCHANGED <<dash, now, store>>

\* the worker handles the request a wrapper sent
ServeTrack(p) ==
  /\ inv[p].pc = "awaitLog"
  /\ inv[p].net = "sent"
  /\ inv[p].request.url = WorkerBase \o "/api/track"
  /\ \E unavailable \in BOOLEAN :
       \E h \in {TrackHandler(inv[p].request, store, now, unavailable)} :
         /\ Len(h.store) <= MaxStore
         /\ store' = h.store
         /\ served' = Exchange(inv[p].request, h, Len(store), unavailable)
  /\ inv' = [inv EXCEPT ![p].net = "served"]
  /\ view' = NoView
  /\ UNCHANGED <<dash, now>>

\* tracking.js:18-33: the fetch resolves with a response (of the worker, or
\* of whatever answers at a URL that is not the worker's); logSkillEvent
\* returns and the wrapper goes on
FetchResolve(p) ==
  /\ inv[p].pc = "awaitLog"
  /\ \/ inv[p].net = "served"
     \/ inv[p].net = "sent" /\ inv[p].request.url # WorkerBase \o "/api/track"
  /\ inv' = [inv EXCEPT ![p] = AfterLog(inv[p], LogReturn, now, p)]
  /\ served' = NoExchange
  /\ view' = NoView
  /\ UNCHANGED <<dash, now, store>>

\* tracking.js:34-37: the fetch rejects (network error, invalid URL), before
\* or after the worker handled the request; logSkillEvent catches
FetchReject(p) ==
  /\ inv[p].pc = "awaitLog"
  /\ inv[p].net \in {"sent", "served"}
  /\ inv' = [inv EXCEPT ![p] =
               AfterLog(inv[p], LogCatch(TypeErr("fetch failed")), now, p)]
  /\ served' = NoExchange
  /\ view' = NoView
  /\ UNCHANGED <<dash, now, store>>

\* the connection stalls: the fetch, which is given no timeout and no abort
\* signal, never settles
FetchHang(p) ==
  /\ inv[p].pc = "awaitLog"
  /\ inv[p].net \in {"sent", "served"}
  /\ inv' = [inv EXCEPT ![p].net = "hung"]
  /\ served' = NoExchange
  /\ view' = NoView
  /\ UNCHANGED <<dash, now, store>>

\* worker-integration.js:26-59: one of `requests` is handled
Post(requests) ==
  /\ \E req \in requests, unavailable \in BOOLEAN :
       LET h == TrackHandler(req, store, now, unavailable)
       IN  /\ Len(h.store) <= MaxStore
           /\ store' = h.store
           /\ served' = Exchange(req, h, Len(store), unavailable)
  /\ view' = NoView
  /\ UNCHANGED <<dash, now, inv>>

\* worker-integration.js:26-59: one of `requests` is handled, the table
\* holding at most `cap` rows afterwards
PostUpTo(requests, cap) ==
  /\ \E req \in requests, unavailable \in BOOLEAN :
       LET h == TrackHandler(req, store, now, unavailable)
       IN  /\ Len(h.store) <= cap
           /\ store' = h.store
           /\ served' = Exchange(req, h, Len(store), unavailable)
  /\ view' = NoView
  /\ UNCHANGED <<dash, now, inv>>

\* a request posted by another client (curl, _track.sh), of any shape
PostTrack == Post(DirectRequests)

\* a request whose event no rule of the data model admits is handled
PostUnvalidated == Post(UnvalidatedRequests)

\* a well-formed request of the dashboard's population is handled
PostQuery == PostUpTo(QueryRequests, MaxRows)

\* an event of one tool, of any status, is handled
PostRate == PostUpTo(RateRequests, MaxRows)

\* a well-formed request of the dashboard's population is handled by a
\* store of the smaller size
PostSample == Post(QueryRequests)

\* a well-formed request posted by another client
PostEvent == Post(WellFormedRequests)

\* GET /analytics/summary: worker-integration.js:62-68
Summary ==
  /\ \E days \in 1..MaxDays :
       view' = [fn |-> "getSummary", days |-> days,
                out |-> getSummary(store, now, days)]
  /\ served' = NoExchange
  /\ UNCHANGED <<dash, now, store, inv>>

\* GET /analytics/tools: worker-integration.js:70-76
ToolStats ==
  /\ \E days \in 1..MaxDays :
       \E out \in getToolStats(store, now, days) :
         view' = [fn |-> "getToolStats", days |-> days, out |-> out]
  /\ served' = NoExchange
  /\ UNCHANGED <<dash, now, store, inv>>

\* GET /analytics/retention: worker-integration.js:78-84
Retention ==
  /\ \E days \in 1..MaxDays :
       view' = [fn |-> "getRetentionStats", days |-> days,
                out |-> getRetentionStats(store, now, days)]
  /\ served' = NoExchange
  /\ UNCHANGED <<dash, now, store, inv>>

\* GET /analytics/errors: worker-integration.js:86-93
RecentErrors ==
  /\ \E days \in 1..MaxDays, limit \in 1..MaxLimit :
       \E out \in getRecentErrors(store, now, days, limit) :
         view' = [fn |-> "getRecentErrors", days |-> days, limit |-> limit,
                  out |-> out]
  /\ served' = NoExchange
  /\ UNCHANGED <<dash, now, store, inv>>

\* GET /analytics/errors?limit=-1: worker-integration.js:86-93, parseInt
\* hands the negative number on
RecentErrorsUncapped ==
  /\ \E days \in 1..MaxDays :
       \E out \in getRecentErrors(store, now, days, -1) :
         view' = [fn |-> "getRecentErrors", days |-> days, limit |-> -1,
                  out |-> out]
  /\ served' = NoExchange
  /\ UNCHANGED <<dash, now, store, inv>>

\* the events logUsageEvent is called with: a success and an error as
\* createTrackingContext().complete() builds them, an event with metadata,
\* one whose metadata cannot be serialized, one without userIdHash, one
\* with a status outside the enumeration, and no event at all
UsageEvents ==
  { UsageEvent(JSStr(hashUserId(IP1)), JSStr("query_data"), JSNum(12),
               JSStr("success"), JSNull, JSUndef),
    UsageEvent(JSStr(hashUserId(IP2)), JSStr("get_page"), JSNum(12),
               JSStr("error"), JSStr("Error"), JSUndef),
    UsageEvent(JSStr(hashUserId(IP1)), JSStr("get_page"), JSNum(12),
               JSStr("success"), JSNull, Metadata(<<"topic">>, JSNum(3))),
    UsageEvent(JSStr(hashUserId(IP1)), JSStr("get_page"), JSNum(12),
               JSStr("success"), JSNull, Metadata(<<"topic">>, JSBig(10))),
    UsageEvent(JSUndef, JSStr("query_data"), JSNum(12),
               JSStr("success"), JSNull, JSUndef),
    UsageEvent(JSStr(hashUserId(IP1)), JSStr("query_data"), JSNum(12),
               JSStr("done"), JSNull, JSUndef),
    JSNull }

\* tracking-utils.js:42-64: a tool handler calls logUsageEvent
LogUsage ==
  /\ \E env \in {Env([t |-> "d1"]), Env(JSUndef), JSUndef}, event \in UsageEvents, unavailable \in BOOLEAN :
       LET r == logUsageEvent(env, event, store, now, unavailable)
       IN  /\ Len(r.store) <= MaxStore
           /\ store' = r.store
           /\ view' = [ fn |-> "logUsageEvent", env |-> env, event |-> event,
                        unavailable |-> unavailable, before |-> Len(store),
                        out |-> r.out ]
  /\ served' = NoExchange
  /\ UNCHANGED <<dash, now, inv>>

\* the values a days or limit query parameter arrives with: absent, empty,
\* not a number, zero, negative, positive
QueryValues ==
  {JSNull, JSStr(""), JSStr("abc"), JSStr("0"), JSStr("-1"), JSStr("2")}

\* worker-integration.js:61-93: a GET of an analytics endpoint is handled;
\* limit is read by /analytics/errors alone
AnalyticsGet ==
  /\ \E path \in {"/analytics/summary", "/analytics/tools",
                   "/analytics/retention", "/analytics/errors"},
        days \in QueryValues, limit \in QueryValues :
       /\ path # "/analytics/errors" => limit = JSNull
       /\ \E response \in AnalyticsHandler(path, SearchParams(days, limit),
                                           store, now) :
            view' = [ fn |-> "fetch", path |-> path, days |-> days,
                      limit |-> limit, response |-> response ]
  /\ served' = NoExchange
  /\ UNCHANGED <<dash, now, store, inv>>

\* part_005:198-203: a range button is clicked; the data-days of the
\* buttons are those of 24h, 7d and 30d
Click ==
  /\ dash.listening
  /\ Len(dash.loads) < MaxLoads
  /\ \E b \in {"1", "7", "30"} :
       dash' = StartLoad([dash EXCEPT !.currentDays = ParseInt(b)])
  /\ served' = NoExchange
  /\ view' = NoView
  /\ UNCHANGED <<now, store, inv>>

\* part_005:52: the 60-second timer calls loadData
TimerFires ==
  /\ dash.listening
  /\ Len(dash.loads) < MaxLoads
  /\ dash' = StartLoad(dash)
  /\ served' = NoExchange
  /\ view' = NoView
  /\ UNCHANGED <<now, store, inv>>

\* worker-integration.js:61-93: the worker answers the four requests of a
\* load
ServeLoad ==
  /\ \E i \in 1..Len(dash.loads) :
       /\ dash.loads[i].data = Pending
       /\ \E summary \in AnalyticsHandler("/analytics/summary",
                                           dash.loads[i].query, store, now),
             tools \in AnalyticsHandler("/analytics/tools",
                                         dash.loads[i].query, store, now),
             retention \in AnalyticsHandler("/analytics/retention",
                                             dash.loads[i].query, store, now),
             errors \in AnalyticsHandler("/analytics/errors",
                                          dash.loads[i].query, store, now) :
            dash' = [dash EXCEPT !.loads[i].data =
                       [ t |-> "data", summary |-> summary, tools |-> tools,
                         retention |-> retention, errors |-> errors ]]
  /\ served' = NoExchange
  /\ view' = NoView
  /\ UNCHANGED <<now, store, inv>>

\* part_005:58-72: the four responses of a load have arrived; Promise.all
\* resolves and the data are rendered, or a response that is not JSON makes
\* it reject and the catch block logs
LoadSettles ==
  /\ \E i \in 1..Len(dash.loads) :
       LET data == dash.loads[i].data
       IN  /\ data # Pending
           /\ IF \A f \in {"summary", "tools", "retention", "errors"} :
                    data[f].kind = "json"
              THEN dash' = Render(dash, i)
              ELSE /\ Len(dash.console) < MaxConsole
                   /\ dash' = LoadCatch(dash, i)
  /\ served' = NoExchange
  /\ view' = NoView
  /\ UNCHANGED <<now, store, inv>>

\* part_005:70-72: a request of a load fails on the network; Promise.all
\* rejects and the catch block logs
LoadFails ==
  /\ Len(dash.console) < MaxConsole
  /\ \E i \in 1..Len(dash.loads) : dash' = LoadCatch(dash, i)
  /\ served' = NoExchange
  /\ view' = NoView
  /\ UNCHANGED <<now, store, inv>>

\* the identifiers hashUserId is called on: an IP, the literal, a session id,
\* a bearer token, an IP+UA composite, the empty text, and a text that is
\* itself 32 hexadecimal characters
Identifiers ==
  { IP1, IP2, "anonymous", "sess-1", "Bearer k1", IP1 \o "_" \o UA, "",
    "fec52565aa0cf18f57d7cf5b3ac72850" }

\* tracking-utils.js:14-20: hashUserId is called, in any request, at any time
HashCall ==
  /\ \E identifier \in Identifiers :
       view' = [fn |-> "hashUserId", identifier |-> identifier,
                out |-> hashUserId(identifier)]
  /\ served' = NoExchange
  /\ UNCHANGED <<dash, now, store, inv>>

Wrapper(p) ==
  \/ Invoke(p)
  \/ SkillSettles(p)
  \/ FetchResolve(p)
  \/ FetchReject(p)
  \/ FetchHang(p)

\* The wrapper and the worker that serves it: concurrent calls of
\* trackSkillExecution, within one tick of the clock
Next ==
  \/ \E p \in Procs : Wrapper(p)
  \/ \E p \in Procs : ServeTrack(p)

Spec == Init /\ [][Next]_vars

\* The event loop runs a continuation once its promise has settled, the
\* worker answers a request it has received, and a connection that does not
\* stall delivers its outcome. Nothing makes a stalled connection settle.
FairSpec ==
  /\ Spec
  /\ \A p \in Procs :
       /\ WF_vars(SkillSettles(p))
       /\ WF_vars(ServeTrack(p))
       /\ WF_vars(FetchResolve(p) \/ FetchReject(p))

\* The worker over time: requests of any client, the clock, the dashboard
StoreNext ==
  \/ Tick
  \/ PostTrack
  \/ Summary

StoreSpec == Init /\ [][StoreNext]_vars

\* One wrapper, other clients and the dashboard against the same worker
SystemNext ==
  \/ Wrapper(1)
  \/ ServeTrack(1)
  \/ PostEvent
  \/ Summary
  \/ ToolStats
  \/ Retention
  \/ RecentErrors

SystemSpec == Init /\ [][SystemNext]_vars

\* Every way a row gets into the store through /api/track
IngestNext ==
  \/ Wrapper(1)
  \/ ServeTrack(1)
  \/ PostTrack
  \/ PostUnvalidated

IngestSpec == Init /\ [][IngestNext]_vars

\* The dashboard's queries against a store that fills over some days
QueryNext ==
  \/ Tick
  \/ PostQuery
  \/ Summary
  \/ ToolStats
  \/ Retention
  \/ RecentErrors
  \/ RecentErrorsUncapped

QuerySpec == Init /\ [][QueryNext]_vars

\* The retention query against a store that fills over more than a week
RetentionNext ==
  \/ Tick
  \/ WeekPasses
  \/ PostQuery
  \/ Retention

RetentionSpec == Init /\ [][RetentionNext]_vars

\* The per-tool query against a store that fills over some days
ToolNext ==
  \/ Tick
  \/ PostQuery
  \/ ToolStats

ToolSpec == Init /\ [][ToolNext]_vars

\* hashUserId called directly and by the ingestion endpoint, over time
HashNext ==
  \/ Tick
  \/ PostEvent
  \/ HashCall

HashSpec == Init /\ [][HashNext]_vars

\* Tool handlers logging through logUsageEvent, over time
UsageNext ==
  \/ Tick
  \/ LogUsage

UsageSpec == Init /\ [][UsageNext]_vars

\* The rates of the summary and of the per-tool query, over some days
RateNext ==
  \/ Tick
  \/ PostRate
  \/ Summary
  \/ ToolStats

RateSpec == Init /\ [][RateNext]_vars

\* The per-tool query and the error listing, set against the summary
AgreeNext ==
  \/ Tick
  \/ PostSample
  \/ ToolStats
  \/ RecentErrors

AgreeSpec == Init /\ [][AgreeNext]_vars

\* The analytics endpoints asked with any query parameters, over some days
EndpointNext ==
  \/ Tick
  \/ PostSample
  \/ AnalyticsGet

EndpointSpec == Init /\ [][EndpointNext]_vars

\* The dashboard page against the worker, whose store fills meanwhile
DashNext ==
  \/ PostSample
  \/ Click
  \/ TimerFires
  \/ ServeLoad
  \/ LoadSettles
  \/ LoadFails

DashSpec == Init /\ [][DashNext]_vars

\* Concurrent calls of trackSkillExecution that differ in their params and
\* results, and the worker that serves them
MetadataNext ==
  \/ \E p \in Procs : InvokeOf(p, MetadataCalls)
  \/ \E p \in Procs : SkillSettles(p)
  \/ \E p \in Procs : FetchResolve(p)
  \/ \E p \in Procs : FetchReject(p)
  \/ \E p \in Procs : FetchHang(p)
  \/ \E p \in Procs : ServeTrack(p)

MetadataSpec == Init /\ [][MetadataNext]_vars

---------------------------------------------------------------------------
(* The wrapper's contract *)

Done(p) == inv[p].pc = "done"
FnReturned(p) == inv[p].pc \in {"awaitLog", "done"} /\ inv[p].fn.kind = "return"
FnThrew(p) == inv[p].pc \in {"awaitLog", "done"} /\ inv[p].fn.kind = "throw"

\* C1: a call whose skillFn returned R returns exactly R, whatever happened
\* to the tracking submission.
C1_ReturnsResult ==
  \A p \in Procs :
    (Done(p) /\ FnReturned(p)) =>
      inv[p].outcome = [kind |-> "return", val |-> inv[p].fn.val]

\* C2: a call whose skillFn threw E throws that same E, for every E, whether
\* or not the error event was delivered.
C2_RethrowsError ==
  \A p \in Procs :
    (Done(p) /\ FnThrew(p)) =>
      inv[p].outcome = [kind |-> "throw", val |-> inv[p].fn.val]

\* C3: logSkillEvent never rejects: every call of it that has settled has
\* resolved, also when the context was missing or malformed, the metadata
\* could not be serialized or the fetch rejected.
C3_LogNeverRejects ==
  \A p \in Procs :
    \A i \in 1..Len(inv[p].logOuts) : inv[p].logOuts[i].k = "resolved"

\* one call whose logSkillEvent could not serialize its metadata (a BigInt
\* result_count) and another whose fetch rejected: both caught the failure
\* and resolved
C3_Witness ==
  /\ \E p \in Procs :
       /\ Done(p) /\ ~IsNullish(inv[p].context)
       /\ inv[p].events # <<>>
       /\ inv[p].events[1].metadata.t = "metadata"
       /\ inv[p].events[1].metadata.result_count.t = "bigint"
       /\ inv[p].logOuts = <<[k |-> "resolved", via |-> "catch"]>>
  /\ \E p \in Procs :
       /\ Done(p) /\ ~IsNullish(inv[p].context)
       /\ inv[p].events # <<>>
       /\ inv[p].events[1].metadata.t = "metadata"
       /\ inv[p].events[1].metadata.result_count.t = "number"
       /\ inv[p].logOuts = <<[k |-> "resolved", via |-> "catch"]>>

\* C4: once skillFn has terminated the wrapper eventually delivers its
\* result or error to the caller, even if the submission to /api/track
\* never completes.
C4_EventuallyDelivers ==
  \A p \in Procs : (FnReturned(p) \/ FnThrew(p)) ~> Done(p)

\* C5: a call in which skillFn terminated submits exactly one event, with
\* status 'success' iff skillFn returned and 'error' iff it threw.
C5_OneEventMatchingOutcome ==
  \A p \in Procs :
    Done(p) =>
      /\ Len(inv[p].events) = 1
      /\ (inv[p].events[1].status = JSStr("success")) <=> (inv[p].fn.kind = "return")
      /\ (inv[p].events[1].status = JSStr("error")) <=> (inv[p].fn.kind = "throw")

---------------------------------------------------------------------------
(* The ingestion endpoint's contract *)

Answered == served.request # NoRequest
Is2xx(status) == status \in 200..299
\* the posted body is an event object
PostedEvent == served.request.body.t = "jsontext" /\ served.request.body.json.t = "object"

\* C6: /api/track answers {success: true} with a 2xx status only if exactly
\* one row was inserted, and {success: false} with a non-2xx status whenever
\* the insert or the reading of the body failed, and then no row is inserted.
C6_ResponseMatchesInsert ==
  Answered =>
    LET r == served.response
        failed == served.unavailable \/ served.request.body.t = "badjson"
    IN  /\ r.success <=> Is2xx(r.status)
        /\ r.success => (Len(store) = served.before + 1 /\ served.rowid = Len(store))
        /\ ~r.success => (Len(store) = served.before /\ served.rowid = 0)
        /\ failed => ~r.success

\* the database failed the insert of a well-formed event, and the request
\* was answered with a failure and no row
C6_Witness ==
  /\ Answered /\ PostedEvent /\ served.unavailable
  /\ served.request.body.json.tool_name = JSStr("query_data")
  /\ served.request.body.json.status = JSStr("success")
  /\ ~served.response.success /\ served.response.status = 500
  /\ Len(store) = served.before

\* the event lacks a tool name or has an empty one, or lacks a status or has
\* one outside the enumeration
InvalidEvent(e) ==
  \/ IsNullish(e.tool_name) \/ e.tool_name = JSStr("")
  \/ IsNullish(e.status)
  \/ ~(e.status.t = "string" /\ e.status.s \in Statuses)

\* C7: an event whose tool_name is missing or empty, or whose status is
\* missing or not one of the three, is answered with an error and leaves the
\* store unchanged.
C7_InvalidRejected ==
  (Answered /\ PostedEvent /\ InvalidEvent(served.request.body.json)) =>
    (~served.response.success /\ Len(store) = served.before)

\* the first available of session header, authorization header, IP+UA
\* composite, else a fixed literal
PriorityIdentifier(headers) ==
  IF Truthy(headers.session) THEN headers.session.s
  ELSE IF Truthy(headers.authorization) THEN headers.authorization.s
  ELSE IF Truthy(headers.ip) \/ Truthy(headers.ua)
  THEN TemplateString(headers.ip) \o "_" \o TemplateString(headers.ua)
  ELSE "anonymous"

IngestHash(headers) == TrackValues(headers, ShellEvent(JSStr("x"), JSStr("success"))).user_id_hash

---------------------------------------------------------------------------
(* The event store and the aggregation queries *)

\* C9: the store is append-only: no step removes or changes a row, and a
\* step that answers an aggregation leaves the store as it found it.
C9_AppendOnly ==
  [][ /\ Len(store') >= Len(store)
      /\ \A i \in 1..Len(store) : store'[i] = store[i]
      /\ (view' # NoView => store' = store) ]_vars

\* the error listing was answered over a store holding a row written through
\* the wrapper and a row posted by another client
C9_Witness ==
  /\ view.fn = "getRecentErrors" /\ view.out.count > 0
  /\ \E i, j \in 1..Len(store) :
       /\ store[i].tool_category = JSStr("cms_ontology")
       /\ store[j].tool_category = JSStr("your_category")

\* the tick a stored timestamp 'YYYY-MM-DD HH:MM:SS' denotes
InstantOf(ts) ==
  LET day == (ts[9] - 48) * 10 + (ts[10] - 48) - 15
      hour == (ts[12] - 48) * 10 + (ts[13] - 48)
  IN  day * TicksPerDay + (hour * TicksPerDay) \div 24

\* C10: getSummary counts as total_invocations exactly the stored events
\* whose timestamp is at or after the instant now - days; events on the
\* cut-off's calendar date count when their time of day is not earlier.
C10_WindowCount ==
  view.fn = "getSummary" =>
    view.out.total_invocations =
      Cardinality({ i \in 1..Len(store) :
                      InstantOf(store[i].timestamp) >= SinceDate(now, view.days) })

\* the rows stored at or after the instant now - days
InWindow(days) ==
  { i \in 1..Len(store) : InstantOf(store[i].timestamp) >= SinceDate(now, days) }

\* C11: when no stored event falls in the window, getSummary answers
\* total_invocations 0, unique_users 0, avg_duration_ms 0 and the rates
\* '0.00', and does not fail.
C11_EmptyWindowZeros ==
  (view.fn = "getSummary" /\ InWindow(view.days) = {}) =>
    view.out = [ period |-> Period(view.days), total_invocations |-> 0,
                 unique_users |-> 0, avg_duration_ms |-> 0,
                 success_rate |-> <<48, 46, 48, 48>>,
                 error_rate |-> <<48, 46, 48, 48>> ]

\* a summary answered with zeros over a store that holds an event, stored
\* before the window began
C11_Witness ==
  /\ view.fn = "getSummary" /\ Len(store) > 0 /\ InWindow(view.days) = {}
  /\ view.out.total_invocations = 0
  /\ view.out.success_rate = <<48, 46, 48, 48>>

\* C12: getToolStats returns one entry per tool_name that has an event in
\* the window, its invocations the number of that tool's events in the
\* window, the entries in descending order of invocations.
C12_ToolStatsPerTool ==
  view.fn = "getToolStats" =>
    LET W == InWindow(view.days)
        out == view.out
    IN  /\ Len(out) = Cardinality({ store[i].tool_name : i \in W })
        /\ { out[k].tool_name : k \in 1..Len(out) }
             = { store[i].tool_name : i \in W }
        /\ \A k \in 1..Len(out) :
             out[k].invocations
               = Cardinality({ i \in W : store[i].tool_name = out[k].tool_name })
        /\ \A k \in 1..(Len(out) - 1) :
             out[k].invocations >= out[k + 1].invocations

\* the day (counted from the day of tick 0) a date 'YYYY-MM-DD' denotes
DayNumber(date) == (date[9] - 48) * 10 + (date[10] - 48) - 15
\* the day on which row i was stored
DayStored(i) == InstantOf(store[i].timestamp) \div TicksPerDay

\* C13: daily_active_users holds one entry for each calendar date in the
\* requested window, in strictly descending date order, each entry's dau
\* the number of distinct userIdHash values among the events of that date.
C13_DailyPerCalendarDate ==
  view.fn = "getRetentionStats" =>
    LET dau == view.out.daily_active_users
    IN  /\ { DayNumber(dau[k].date) : k \in 1..Len(dau) }
             = (SinceDate(now, view.days) \div TicksPerDay)..(now \div TicksPerDay)
        /\ \A k \in 1..(Len(dau) - 1) :
             DayNumber(dau[k].date) > DayNumber(dau[k + 1].date)
        /\ \A k \in 1..Len(dau) :
             dau[k].dau
               = Cardinality({ store[i].user_id_hash :
                   i \in { j \in 1..Len(store) :
                             DayStored(j) = DayNumber(dau[k].date) } })

\* C13, restated: daily_active_users holds one entry for each calendar date
\* on which an event of the window was stored, in strictly descending date
\* order, each entry's dau the number of distinct userIdHash values among the
\* events of that date that lie in the window.
C13_DailyPerEventDate ==
  view.fn = "getRetentionStats" =>
    LET dau == view.out.daily_active_users
        W == InWindow(view.days)
    IN  /\ { DayNumber(dau[k].date) : k \in 1..Len(dau) }
             = { DayStored(i) : i \in W }
        /\ \A k \in 1..(Len(dau) - 1) :
             DayNumber(dau[k].date) > DayNumber(dau[k + 1].date)
        /\ \A k \in 1..Len(dau) :
             dau[k].dau
               = Cardinality({ store[i].user_id_hash :
                   i \in { j \in W : DayStored(j) = DayNumber(dau[k].date) } })

\* two dates are listed, and the older one is the cut-off's date: an event
\* of that date stored before the cut-off is not counted, a later one is
C13_Witness ==
  /\ view.fn = "getRetentionStats"
  /\ Len(view.out.daily_active_users) = 2
  /\ view.out.daily_active_users[2].dau = 1
  /\ \E i, j \in 1..Len(store) :
       /\ i \notin InWindow(view.days) /\ j \in InWindow(view.days)
       /\ DayStored(i) = DayStored(j)
       /\ store[i].user_id_hash # store[j].user_id_hash

\* the rows stored in the last 7 days
LastWeek ==
  { i \in 1..Len(store) :
      InstantOf(store[i].timestamp) >= now - 7 * TicksPerDay }

\* C14: weekly_active_users is the number of distinct userIdHash values
\* among the events of the last 7 days (0 when there are none), whatever
\* window was asked for: every value of days gives the same number.
C14_WeeklyActiveUsers ==
  view.fn = "getRetentionStats" =>
    /\ view.out.weekly_active_users
         = Cardinality({ store[i].user_id_hash : i \in LastWeek })
    /\ \A d \in 1..MaxDays :
         getRetentionStats(store, now, d).weekly_active_users
           = view.out.weekly_active_users

\* the store holds events of two users, one of them older than a week: the
\* weekly count is 1, and the day asked for holds no event at all
C14_Witness ==
  /\ view.fn = "getRetentionStats"
  /\ view.out.weekly_active_users = 1
  /\ view.out.daily_active_users = <<>>
  /\ \E i, j \in 1..Len(store) :
       /\ i \notin LastWeek /\ j \in LastWeek
       /\ store[i].user_id_hash # store[j].user_id_hash

\* the error events of the window
ErrorsInWindow(days) ==
  { i \in InWindow(days) : store[i].status = JSStr("error") }

\* C15: getRecentErrors returns only events with status 'error' inside the
\* window, newest first; when the window holds more than limit of them it
\* returns exactly the limit most recent ones; count is the length of the
\* list and never exceeds limit.
C15_RecentErrorsCapped ==
  view.fn = "getRecentErrors" =>
    LET errs == view.out.errors
        E == ErrorsInWindow(view.days)
    IN  /\ view.out.count = Len(errs)
        /\ view.out.count <= view.limit
        /\ \A k \in 1..Len(errs) :
             \E i \in E :
               /\ errs[k].timestamp = store[i].timestamp
               /\ errs[k].tool_name = store[i].tool_name
               /\ errs[k].error_type = store[i].error_type
        /\ \A k \in 1..(Len(errs) - 1) :
             InstantOf(errs[k].timestamp) >= InstantOf(errs[k + 1].timestamp)
        /\ Cardinality(E) > view.limit =>
             /\ Len(errs) = view.limit
             /\ Cardinality({ i \in E :
                    InstantOf(store[i].timestamp)
                      > InstantOf(errs[Len(errs)].timestamp) }) < view.limit

EntriesOf(out, T) == { out[k] : k \in { j \in 1..Len(out) : out[j].tool_name = T } }
\* T's invocations in a getToolStats result (0 without an entry)
InvocationsOf(out, T) ==
  IF EntriesOf(out, T) = {} THEN 0
  ELSE (CHOOSE e \in EntriesOf(out, T) : TRUE).invocations

\* C17: a getToolStats that immediately follows a successful POST /api/track
\* of an event (T, S, D) shows, for any window of at least one day, one
\* entry for T whose invocations are one more than getToolStats showed
\* before the ingest; the row holds T, S and D as sent, and the entry's
\* rates and average are those of T's selected rows, the new one included.
C17_IngestShowsInToolStats ==
  [][ (Answered /\ served.rowid # 0 /\ view'.fn = "getToolStats") =>
        LET e == served.request.body.json
            row == store[served.rowid]
            before == SubSeq(store, 1, served.before)
            G == { i \in RowsSince(store, now, view'.days) :
                     store[i].tool_name = e.tool_name }
            sum == SumOver([i \in G |-> store[i].duration_ms.n], G)
        IN  /\ row.tool_name = e.tool_name
            /\ row.status = e.status
            /\ row.duration_ms = e.duration_ms
            /\ served.rowid \in G
            /\ Cardinality(EntriesOf(view'.out, e.tool_name)) = 1
            /\ \A b \in getToolStats(before, now, view'.days) :
                 InvocationsOf(view'.out, e.tool_name)
                   = InvocationsOf(b, e.tool_name) + 1
            /\ \A a \in EntriesOf(view'.out, e.tool_name) :
                 /\ a.invocations = Cardinality(G)
                 /\ a.success_rate
                      = ToFixed2(Cardinality({ i \in G : store[i].status = JSStr("success") }),
                                 Cardinality(G))
                 /\ a.error_rate
                      = ToFixed2(Cardinality({ i \in G : store[i].status = JSStr("error") }),
                                 Cardinality(G))
                 /\ a.avg_duration_ms
                      = (2 * sum + Cardinality(G)) \div (2 * Cardinality(G)) ]_vars

\* the per-tool statistics were answered at the instant an error event of
\* get_page was stored, the tool's second event in the selection: its entry
\* shows 2 invocations, half of them errors
C17_Witness ==
  /\ view.fn = "getToolStats" /\ Len(store) >= 2
  /\ store[Len(store)].timestamp = CurrentTimestamp(now)
  /\ store[Len(store)].status = JSStr("error")
  /\ \E a \in EntriesOf(view.out, store[Len(store)].tool_name) :
       a.invocations = 2 /\ a.error_rate = <<53, 48, 46, 48, 48>>

C19_ErrorFieldsOnlyOnErrors ==
  \A i \in 1..Len(store) :
    store[i].status # JSStr("error") =>
      (store[i].error_type = JSNull /\ store[i].error_message = JSNull)

\* C20: every stored row's duration_ms is a non-negative integer.
C20_DurationNonNegative ==
  \A i \in 1..Len(store) :
    store[i].duration_ms.t = "number" /\ store[i].duration_ms.n >= 0

---------------------------------------------------------------------------
(* The identity helper *)

HexChars ==
  {"0", "1", "2", "3", "4", "5", "6", "7", "8", "9", "a", "b", "c", "d", "e", "f"}

\* C21: hashUserId depends on its identifier alone: a call returns what the
\* previous call on the same identifier returned and what the endpoint
\* stored for a request from that address; the value is 32 hexadecimal
\* characters long, whatever the identifier, and differs from it.
C21_HashDeterministic ==
  [][ /\ view'.fn = "hashUserId" =>
           /\ Len(view'.out) = 32
           /\ \A k \in 1..Len(view'.out) : SubSeq(view'.out, k, k) \in HexChars
           /\ view'.out # view'.identifier
           /\ (view.fn = "hashUserId" /\ view.identifier = view'.identifier) =>
                view'.out = view.out
           /\ \A i \in Identifiers :
                (hashUserId(i) = view'.out) <=> (i = view'.identifier)
      /\ ( /\ view.fn = "hashUserId"
           /\ served' # NoExchange /\ served'.rowid # 0
           /\ served'.request.headers.ip = JSStr(view.identifier) ) =>
           store'[served'.rowid].user_id_hash = JSStr(view.out) ]_vars

\* hashUserId was called on an address at a later time than the endpoint
\* stored a row for a request from that address: the row holds the value the
\* call returned
C21_Witness ==
  /\ view.fn = "hashUserId" /\ view.identifier = IP1
  /\ \E i \in 1..Len(store) :
       /\ store[i].user_id_hash = JSStr(view.out)
       /\ InstantOf(store[i].timestamp) < now

---------------------------------------------------------------------------
(* The success event's metadata *)

\* the value has neither a count nor pages
NoCountField(v) == IsNullish(PropCount(v)) /\ IsNullish(PropPages(v))

\* C22: a call whose skillFn returned a value without a count-like field
\* (null, undefined and primitives included), or whose params is null or
\* undefined, returns skillFn's value and submits one event, of status
\* 'success', with the count omitted when the result has no count-like field.
C22_MetadataNeverFails ==
  \A p \in Procs :
    ( /\ Done(p) /\ FnReturned(p)
      /\ (NoCountField(inv[p].fn.val) \/ IsNullish(inv[p].params)) ) =>
      /\ inv[p].outcome = [kind |-> "return", val |-> inv[p].fn.val]
      /\ Len(inv[p].events) = 1
      /\ inv[p].events[1].status = JSStr("success")
      /\ NoCountField(inv[p].fn.val) =>
           inv[p].events[1].metadata.result_count = JSNull

---------------------------------------------------------------------------
(* logUsageEvent *)

\* the call cannot store its event: no environment or no DB binding, no
\* event, a value that cannot be serialized or bound, a database that fails
\* the statement or refuses the row
UsageFails ==
  \/ IsNullish(view.env) \/ IsNullish(view.env.DB)
  \/ IsNullish(view.event)
  \/ view.unavailable
  \/ IsNullish(view.event.userIdHash)
  \/ view.event.status \notin { JSStr(x) : x \in Statuses }
  \/ (view.event.metadata.t = "metadata"
        /\ view.event.metadata.result_count.t = "bigint")

\* C23: logUsageEvent never rejects: every call resolves; when preparing,
\* binding or running the insert fails no row is written, and otherwise
\* exactly one is.
C23_LogUsageNeverRejects ==
  view.fn = "logUsageEvent" =>
    /\ view.out.k = "resolved"
    /\ UsageFails => Len(store) = view.before
    /\ ~UsageFails =>
         /\ Len(store) = view.before + 1
         /\ store[Len(store)].tool_name = view.event.toolName
         /\ store[Len(store)].status = view.event.status

\* the database failed the insert of a well-formed event into a store that
\* holds a row: the call resolved and the store holds what it held
C23_Witness ==
  /\ view.fn = "logUsageEvent" /\ view.unavailable
  /\ view.env = Env([t |-> "d1"]) /\ ~IsNullish(view.event)
  /\ view.event.status = JSStr("error")
  /\ view.out = [k |-> "resolved", via |-> "catch"]
  /\ Len(store) = 1 /\ view.before = 1

\* the calls of p and q differ at most in the values of their params
SameButValues(p, q) ==
  /\ inv[p].skillName = inv[q].skillName
  /\ inv[p].context = inv[q].context
  /\ inv[p].fn = inv[q].fn
  /\ inv[p].startTime = inv[q].startTime
  /\ inv[p].params.t = inv[q].params.t
  /\ inv[p].params.t = "params" => inv[p].params.keys = inv[q].params.keys

\* C24: two calls that differ only in the values of params (same keys, same
\* skillFn outcome, same duration) submit identical events and identical
\* request bodies: no parameter value reaches the tracking endpoint.
C24_OnlyParamKeys ==
  \A p, q \in Procs :
    SameButValues(p, q) =>
      /\ \A i \in 1..Len(inv[p].events) :
           i <= Len(inv[q].events) =>
             ( (inv[p].events[i].duration = inv[q].events[i].duration)
                 => inv[p].events[i] = inv[q].events[i] )
      /\ ( /\ inv[p].request # NoRequest /\ inv[q].request # NoRequest
           /\ Len(inv[p].events) = Len(inv[q].events) ) =>
           inv[p].request.body = inv[q].request.body

\* two calls with the same parameter names and different values have each a
\* request in flight, and the two bodies are equal
C24_Witness ==
  \E p, q \in Procs :
    /\ SameButValues(p, q)
    /\ inv[p].params.t = "params" /\ inv[q].params.t = "params"
    /\ inv[p].params.vals # inv[q].params.vals
    /\ inv[p].request # NoRequest /\ inv[q].request # NoRequest
    /\ inv[p].events[1].metadata.t = "metadata"
    /\ inv[p].request.body = inv[q].request.body

\* C25: a success event built for a result with a numeric count holds that
\* count as metadata.result_count, 0 included; result_count is null only
\* when the result has neither a count nor pages.
C25_ResultCountKept ==
  \A p \in Procs :
    ( /\ inv[p].events # <<>>
      /\ inv[p].events[1].status = JSStr("success") ) =>
      LET count == PropCount(inv[p].fn.val)
          meta == inv[p].events[1].metadata
      IN  /\ count.t = "number" => meta.result_count = count
          /\ meta.result_count = JSNull => NoCountField(inv[p].fn.val)

---------------------------------------------------------------------------
(* Rates and the agreement of the aggregations *)

RECURSIVE DigitsValue(_)
\* the number a text of decimal digits denotes
DigitsValue(text) ==
  IF text = <<>> THEN 0
  ELSE DigitsValue(SubSeq(text, 1, Len(text) - 1)) * 10 + (text[Len(text)] - 48)

\* a rate 'N.NN' in hundredths of a percent
Hundredths(rate) ==
  DigitsValue(SubSeq(rate, 1, Len(rate) - 3)) * 100
    + DigitsValue(SubSeq(rate, Len(rate) - 1, Len(rate)))

\* count out of total as a percentage, rounded to two decimals, in
\* hundredths
Percentage(count, total) == (count * 20000 + total) \div (2 * total)

\* the rates are those of the counted events C
RatesOf(success_rate, error_rate, C) ==
  LET n(x) == Cardinality({ i \in C : store[i].status = JSStr(x) })
      sum == Hundredths(success_rate) + Hundredths(error_rate)
  IN  /\ Hundredths(success_rate) = Percentage(n("success"), Cardinality(C))
      /\ Hundredths(error_rate) = Percentage(n("error"), Cardinality(C))
      /\ sum <= 10001
      /\ (n("timeout") = 0) <=> (sum >= 10000)

\* C26: over a non-empty selection, success_rate and error_rate of
\* getSummary and of every getToolStats entry are the percentages, rounded
\* to two decimals, of the 'success' and 'error' events among the events
\* counted, 'timeout' events counting in the denominator only: the two add
\* up to 100 (within a hundredth) exactly when no counted event is a
\* timeout, and to less otherwise.
C26_RatesArePercentages ==
  /\ (view.fn = "getSummary" /\ view.out.total_invocations > 0) =>
       RatesOf(view.out.success_rate, view.out.error_rate,
               RowsSince(store, now, view.days))
  /\ view.fn = "getToolStats" =>
       \A k \in 1..Len(view.out) :
         RatesOf(view.out[k].success_rate, view.out[k].error_rate,
                 { i \in RowsSince(store, now, view.days) :
                     store[i].tool_name = view.out[k].tool_name })

\* the summary counts a success and a timeout and leaves out an error stored
\* before the window: its rates are 50.00 and 0.00
C26_Witness ==
  /\ view.fn = "getSummary" /\ view.out.total_invocations = 2
  /\ Len(store) = 3 /\ store[1].status = JSStr("error")
  /\ view.out.success_rate = <<53, 48, 46, 48, 48>>
  /\ view.out.error_rate = <<48, 46, 48, 48>>

---------------------------------------------------------------------------
(* The call of skillFn *)

\* C27: a call of trackSkillExecution invokes skillFn exactly once, with
\* the params and the context it was given, whether skillFn returned or
\* threw and whether the submission succeeded, failed or is still pending.
C27_FnInvokedOnce ==
  \A p \in Procs :
    inv[p].pc # "idle" =>
      inv[p].fnCalls = <<[params |-> inv[p].params, context |-> inv[p].context]>>

\* one call whose skillFn threw and whose submission was rejected, and one
\* whose skillFn returned and whose submission was answered, have both
\* finished
C27_Witness ==
  \E p, q \in Procs :
    /\ Done(p) /\ FnThrew(p)
    /\ inv[p].logOuts = <<[k |-> "resolved", via |-> "catch"]>>
    /\ Done(q) /\ FnReturned(q)
    /\ inv[q].logOuts = <<[k |-> "resolved", via |-> "return"]>>
    /\ Len(inv[p].fnCalls) = 1 /\ Len(inv[q].fnCalls) = 1

\* the number of 'error' events behind the error_rate getSummary answers
\* for this store, time and window
SummaryErrors(days) ==
  LET sm == getSummary(store, now, days)
  IN  IF sm.total_invocations = 0 THEN 0
      ELSE CHOOSE k \in 0..sm.total_invocations :
             Percentage(k, sm.total_invocations) = Hundredths(sm.error_rate)

\* C28: for the same store, time and days, the invocations of the entries
\* of getToolStats add up to getSummary's total_invocations, and a
\* getRecentErrors whose limit is not below the number of errors answers a
\* count equal to the number of 'error' events behind getSummary's
\* error_rate.
C28_AggregationsAgree ==
  /\ view.fn = "getToolStats" =>
       SumOver([k \in 1..Len(view.out) |-> view.out[k].invocations],
               1..Len(view.out))
         = getSummary(store, now, view.days).total_invocations
  /\ (view.fn = "getRecentErrors" /\ view.limit >= SummaryErrors(view.days)) =>
       view.out.count = SummaryErrors(view.days)

\* the error listing answers one error where the store holds two, the
\* other one stored before the window; the summary counts one event, that
\* error
C28_Witness ==
  /\ view.fn = "getRecentErrors" /\ view.out.count = 1
  /\ Cardinality({ i \in 1..Len(store) : store[i].status = JSStr("error") }) = 2
  /\ getSummary(store, now, view.days).total_invocations = 1
  /\ SummaryErrors(view.days) = 1

---------------------------------------------------------------------------
(* The analytics endpoints *)

\* C29: every GET of /analytics/summary, /analytics/tools,
\* /analytics/retention and /analytics/errors is answered with a JSON
\* response, whatever the days and limit parameters hold (absent, not a
\* number, zero, negative): no parameter value makes the handler end with an
\* exception nobody catches.
C29_AlwaysJsonResponse ==
  view.fn = "fetch" => view.response.kind = "json"

---------------------------------------------------------------------------
(* The dashboard *)

\* C30: once a range other than the initial one is selected and no
\* loadData call is in flight (none of them having failed), the display
\* shows the data fetched for the selected range: the response for a range
\* selected earlier does not replace it.
C30_ShowsSelectedRange ==
  ( /\ dash.listening /\ dash.loads = <<>> /\ dash.console = <<>>
    /\ dash.currentDays # JSNum(7) ) =>
    /\ dash.shown # NoData
    /\ dash.shown.days = NumberText(dash.currentDays)

====
